---- MODULE Spec2Model ----
(***************************************************************************)
(* Bill Buddy: the Convex backend functions of convex/contacts.js          *)
(* (getAllContacts, createGroup) and the React hooks of                    *)
(* hooks/use-convex-query.jsx (useConvexQuery, useConvexMutation).         *)
(*                                                                         *)
(* Strings are sequences of character codes: 0 is the space character and  *)
(* a letter is its position in the alphabet (1 = "a", 2 = "b", ...).       *)
(***************************************************************************)
EXTENDS Integers, Sequences, FiniteSets, TLC

(* ------------------------------ bounds -------------------------------- *)
MaxUsers == 3
MaxExpenses == 2
MaxSplits == 2
MaxMembers == 2
MaxGroups == 2
MaxNameLen == 1
MaxClock == 1
MaxValues == 2
MaxCalls == 2

VARIABLES
    users,      \* the "users" table: _id -> document
    expenses,   \* the "expenses" table, in insertion (_creationTime) order
    groups,     \* the "groups" table, in insertion order; _id is the index
    now,        \* the wall clock
    ret,        \* the last backend call and what it returned or threw
    qResult,    \* useConvexQuery: what useQuery returned at the last render
    qEffect,    \* useConvexQuery: the effect is due (its dependency changed)
    qThrown,    \* useConvexQuery: the error useQuery threw while rendering
    qData,      \* useConvexQuery: the data state
    qIsLoading, \* useConvexQuery: the isLoading state
    qError,     \* useConvexQuery: the error state
    mCalls,     \* useConvexMutation: each mutate call and how it ended
    mData,      \* useConvexMutation: the data state
    mIsLoading, \* useConvexMutation: the isLoading state
    mError,     \* useConvexMutation: the error state
    toasts      \* the errors handed to toast.error, oldest first

backend == <<users, expenses, groups, now, ret>>
queryHook == <<qResult, qEffect, qThrown, qData, qIsLoading, qError>>
mutationHook == <<mCalls, mData, mIsLoading, mError>>
hooks == <<queryHook, mutationHook, toasts>>
vars == <<backend, hooks>>

(* ------------------------------ values -------------------------------- *)
Range(s) == {s[i] : i \in DOMAIN s}
SeqsUpTo(S, n) == UNION {[1..k -> S] : k \in 0..n}

UserIds == 1..MaxUsers
\* null, as ctx.db.get returns it for an id with no document
Null == [_id |-> 0]
\* undefined, for an optional string argument that is not given
Undefined == <<-1>>
\* the absent groupId of a personal expense
NoGroup == 0

Space == 0
NameChars == {Space, 1, 2}
UserNames == {<<1>>, <<2>>}
GroupNames == SeqsUpTo(NameChars, MaxNameLen)
Descriptions == {Undefined}
\* ToString(undefined) = "undefined"
UndefinedString == <<21, 14, 4, 5, 6, 9, 14, 5, 4>>

(* String.prototype.trim *)
RECURSIVE trimStart(_)
trimStart(s) ==
    IF s # <<>> /\ Head(s) = Space THEN trimStart(Tail(s)) ELSE s

RECURSIVE trimEnd(_)
trimEnd(s) ==
    IF s # <<>> /\ s[Len(s)] = Space
    THEN trimEnd(SubSeq(s, 1, Len(s) - 1))
    ELSE s

trim(s) == trimEnd(trimStart(s))

(* String.prototype.localeCompare: negative, zero or positive *)
RECURSIVE localeCompare(_, _)
localeCompare(a, b) ==
    IF a = <<>> /\ b = <<>> THEN 0
    ELSE IF a = <<>> THEN -1
    ELSE IF b = <<>> THEN 1
    ELSE IF Head(a) < Head(b) THEN -1
    ELSE IF Head(a) > Head(b) THEN 1
    ELSE localeCompare(Tail(a), Tail(b))

(* new Set(...) / Set.prototype.add: a set that iterates in insertion order *)
SetAdd(s, x) == IF x \in Range(s) THEN s ELSE Append(s, x)

RECURSIVE NewSet(_)
NewSet(arr) ==
    IF arr = <<>> THEN <<>>
    ELSE SetAdd(NewSet(SubSeq(arr, 1, Len(arr) - 1)), arr[Len(arr)])

(* ctx.db.get(id) on the users table *)
dbGet(id) == IF id \in DOMAIN users THEN users[id] ELSE Null

(* ---------------------------- getAllContacts --------------------------- *)
expensesYouPaid(uid) ==
    SelectSeq(expenses,
              LAMBDA e : e.paidByUserId = uid /\ e.groupId = NoGroup)

\* mutant: the expenses of others are not narrowed to personal ones
expensesNotPaidByYouAnyGroup(uid) ==
    SelectSeq(expenses,
              LAMBDA e : /\ e.paidByUserId # uid
                         /\ \E i \in DOMAIN e.splits : e.splits[i].userId = uid)

expensesNotPaidByYou(uid) ==
    SelectSeq(SelectSeq(expenses, LAMBDA e : e.groupId = NoGroup),
              LAMBDA e : /\ e.paidByUserId # uid
                         /\ \E i \in DOMAIN e.splits : e.splits[i].userId = uid)

personalExpenses(uid) == expensesYouPaid(uid) \o expensesNotPaidByYou(uid)

\* mutant: every split participant is added, the viewer too
RECURSIVE addSplitsWithViewer(_, _, _)
addSplitsWithViewer(ids, splits, uid) ==
    IF splits = <<>> THEN ids
    ELSE addSplitsWithViewer(SetAdd(ids, Head(splits).userId), Tail(splits), uid)

RECURSIVE addSplits(_, _, _)
addSplits(ids, splits, uid) ==
    IF splits = <<>> THEN ids
    ELSE addSplits(IF Head(splits).userId # uid
                   THEN SetAdd(ids, Head(splits).userId)
                   ELSE ids,
                   Tail(splits), uid)

RECURSIVE addExpenses(_, _, _)
addExpenses(ids, exps, uid) ==
    IF exps = <<>> THEN ids
    ELSE LET exp == Head(exps)
             withPayer == IF exp.paidByUserId # uid
                          THEN SetAdd(ids, exp.paidByUserId)
                          ELSE ids
         IN addExpenses(addSplits(withPayer, exp.splits, uid), Tail(exps), uid)

contactIds(uid) == addExpenses(<<>>, personalExpenses(uid), uid)

contactUsers(uid) ==
    LET ids == contactIds(uid) IN
    [i \in DOMAIN ids |->
        LET u == dbGet(ids[i]) IN
        IF u # Null
        THEN [id |-> u._id, name |-> u.name, type |-> "user"]
        ELSE Null]

\* mutant: only the groups the user created are found
userGroupsCreated(uid) ==
    LET mine == SelectSeq(groups, LAMBDA g : g.createdBy = uid)
    IN [i \in DOMAIN mine |->
           [id |-> mine[i]._id, name |-> mine[i].name,
            description |-> mine[i].description,
            memberCount |-> Len(mine[i].members), type |-> "group"]]

userGroups(uid) ==
    LET mine == SelectSeq(groups,
                    LAMBDA g : \E i \in DOMAIN g.members :
                                   g.members[i].userId = uid)
    IN [i \in DOMAIN mine |->
           [id |-> mine[i]._id, name |-> mine[i].name,
            description |-> mine[i].description,
            memberCount |-> Len(mine[i].members), type |-> "group"]]

\* (a, b) => a?.name.localeCompare(b?.name); undefined counts as +0
compareUsers(a, b) ==
    IF a = Null THEN 0
    ELSE localeCompare(a.name, IF b = Null THEN UndefinedString ELSE b.name)

compareGroups(a, b) == localeCompare(a.name, b.name)

\* the two comparators handed to sort, called by name
comparefn(which, a, b) ==
    IF which = "users" THEN compareUsers(a, b) ELSE compareGroups(a, b)

Sign(x) == IF x < 0 THEN -1 ELSE IF x > 0 THEN 1 ELSE 0

\* ECMAScript's consistent comparator for the elements of arr
ConsistentComparator(arr, which) ==
    LET S == Range(arr) IN
    /\ \A a \in S : comparefn(which, a, a) = 0
    /\ \A a, b \in S :
          Sign(comparefn(which, a, b)) = -Sign(comparefn(which, b, a))
    /\ \A a, b, c \in S :
          /\ (comparefn(which, a, b) = 0 /\ comparefn(which, b, c) = 0)
                => comparefn(which, a, c) = 0
          /\ (comparefn(which, a, b) < 0 /\ comparefn(which, b, c) < 0)
                => comparefn(which, a, c) < 0
          /\ (comparefn(which, a, b) > 0 /\ comparefn(which, b, c) > 0)
                => comparefn(which, a, c) > 0

Perms(n) == {p \in [1..n -> 1..n] : \A i, j \in 1..n : i # j => p[i] # p[j]}

(* Array.prototype.sort: every array it can leave. With a consistent       *)
(* comparator that is the one stable ordering; otherwise ECMAScript leaves *)
(* the order to the implementation, so every arrangement is possible.      *)
ArraySort(arr, which) ==
    LET n == Len(arr)
        \* the place of arr[i] in the stable ordering
        place(i) == 1 + Cardinality({j \in 1..n :
                            \/ comparefn(which, arr[j], arr[i]) < 0
                            \/ comparefn(which, arr[j], arr[i]) = 0 /\ j < i})
        stable == [k \in 1..n |-> arr[CHOOSE i \in 1..n : place(i) = k]]
    IN IF ConsistentComparator(arr, which)
       THEN {stable}
       ELSE {[i \in 1..n |-> arr[p[i]]] : p \in Perms(n)}

\* mutant: the null entries are not filtered out
filterNothing(arr) == arr

\* Array.prototype.filter(Boolean)
filterBoolean(arr) == SelectSeq(arr, LAMBDA x : x # Null)

\* every value the query can return for the viewer uid
getAllContacts(uid) ==
    {[users |-> filterBoolean(su), groups |-> sg] :
        su \in ArraySort(contactUsers(uid), "users"),
        sg \in ArraySort(userGroups(uid), "groups")}

GetAllContacts ==
    \E uid \in DOMAIN users :
        \E r \in getAllContacts(uid) :
            /\ ret' = [op |-> "getAllContacts", viewer |-> uid,
                       error |-> "none", value |-> r]
            /\ UNCHANGED <<users, expenses, groups, now, hooks>>

(* ------------------------------ createGroup ---------------------------- *)
\* mutant: the name is tested without trimming it
invalidNameUntrimmed(name) == name = <<>>

\* !args.name.trim()
invalidName(name) == trim(name) = <<>>

\* mutant: the members are kept as an array, the creator pushed onto it
uniqueMembersAsArray(members, caller) == Append(members, caller)

\* new Set(args.members) followed by uniqueMembers.add(currentUser._id)
uniqueMembers(members, caller) == SetAdd(NewSet(members), caller)

\* mutant: the loop goes on after a missing id, so the last one is reported
RECURSIVE lastMissing(_)
lastMissing(ids) ==
    IF ids = <<>> THEN 0
    ELSE IF dbGet(ids[Len(ids)]) = Null THEN ids[Len(ids)]
    ELSE lastMissing(SubSeq(ids, 1, Len(ids) - 1))

\* the first id of the iteration that ctx.db.get does not find, or 0
RECURSIVE firstMissing(_)
firstMissing(ids) ==
    IF ids = <<>> THEN 0
    ELSE IF dbGet(Head(ids)) = Null THEN Head(ids)
    ELSE firstMissing(Tail(ids))

\* mutant: Date.now() reads the wall clock at each call
DateNowWallClock(frozen, wall) == wall

\* Date.now() inside a Convex mutation (createGroup = mutation({...})): the
\* runtime freezes the function's time when the function begins, so every
\* call returns that time whatever the wall clock shows meanwhile.
DateNow(frozen, wall) == frozen

\* args.description?.trim() ?? ""
groupDescription(description) ==
    IF description = Undefined THEN <<>> ELSE trim(description)

\* the document handed to ctx.db.insert("groups", ...); wall[i] is the wall
\* clock when the i-th member object is built
newGroup(id, caller, name, description, ids, frozen, wall) ==
    [_id |-> id,
     name |-> trim(name),
     description |-> groupDescription(description),
     createdBy |-> caller,
     members |-> [i \in DOMAIN ids |->
                     [userId |-> ids[i],
                      role |-> IF ids[i] = caller THEN "admin" ELSE "member",
                      joinedAt |-> DateNow(frozen, wall[i])]]]

\* the wall clock read n times from time t on: it never runs backwards
Clocks(t, n) ==
    {w \in [1..n -> t..MaxClock] : \A i, j \in 1..n : i < j => w[i] <= w[j]}

\* the checks of the handler, in its order: what it throws, if anything
validateGroup(caller, name, members) ==
    LET ids == uniqueMembers(members, caller) IN
    IF invalidName(name)
    THEN [error |-> "Group name cannot be empty", errorId |-> 0]
    ELSE IF firstMissing(ids) # 0
    THEN [error |-> "User not found", errorId |-> firstMissing(ids)]
    ELSE [error |-> "none", errorId |-> 0]

\* the handler as a function of its arguments and the database: what it
\* throws or returns, and the groups table it leaves
createGroupResult(caller, name, description, members, wall) ==
    LET thrown == validateGroup(caller, name, members) IN
    IF thrown.error # "none"
    THEN [error |-> thrown.error, errorId |-> thrown.errorId, value |-> 0,
          groups |-> groups]
    ELSE [error |-> "none", errorId |-> 0, value |-> Len(groups) + 1,
          groups |-> Append(groups,
                            newGroup(Len(groups) + 1, caller, name, description,
                                     uniqueMembers(members, caller), now, wall))]

\* the call ends; a call that inserted a group is logged with its members
\* argument
createGroupReturn(result, members, finished) ==
    /\ groups' = result.groups
    /\ now' = finished
    /\ ret' = IF result.error = "none"
              THEN [op |-> "createGroup", error |-> "none", errorId |-> 0,
                    value |-> result.value, startedAt |-> now,
                    finishedAt |-> finished, members |-> members]
              ELSE [op |-> "createGroup", error |-> result.error,
                    errorId |-> result.errorId, value |-> 0,
                    startedAt |-> now, finishedAt |-> finished]
    /\ UNCHANGED <<users, expenses, hooks>>

createGroup(caller, name, description, members) ==
    IF validateGroup(caller, name, members).error # "none"
    THEN createGroupReturn(
             createGroupResult(caller, name, description, members, <<>>),
             members, now)
    ELSE /\ Len(groups) < MaxGroups
         /\ \E wall \in Clocks(now, Len(uniqueMembers(members, caller))) :
              createGroupReturn(
                  createGroupResult(caller, name, description, members, wall),
                  members, wall[Len(wall)])

MemberLists == SeqsUpTo(UserIds, MaxMembers)

CreateGroup ==
    \E caller \in DOMAIN users, name \in GroupNames,
       description \in Descriptions, members \in MemberLists :
        createGroup(caller, name, description, members)

(* ------------------------------ the hooks ------------------------------ *)
\* undefined: useQuery's result while loading, and the initial data state
UndefinedResult == 0
\* null: the error state with no error
NullError == 0
\* the values a query or a mutation yields, and the errors they fail with
Values == 1..MaxValues
Errors == 1..MaxValues

HooksInit ==
    /\ qResult = UndefinedResult
    /\ qEffect = TRUE
    /\ qThrown = NullError
    /\ qData = UndefinedResult
    /\ qIsLoading = TRUE
    /\ qError = NullError
    /\ mCalls = [k \in 1..MaxCalls |-> [pc |-> "idle", value |-> 0]]
    /\ mData = UndefinedResult
    /\ mIsLoading = FALSE
    /\ mError = NullError
    /\ toasts = <<>>

\* A render of the component in which useQuery(query, ...args) returns r:
\* React runs the effect after the render when r differs from the result of
\* the render before. A due effect runs before the next render.
useQueryReturns(r) ==
    /\ qThrown = NullError
    /\ ~qEffect
    /\ qResult' = r
    /\ qEffect' = (r # qResult)
    /\ UNCHANGED <<qThrown, qData, qIsLoading, qError>>

\* A render in which useQuery throws: the query function failed, and Convex
\* rethrows its error from the useQuery call. The render ends there, without
\* a commit, so no effect of it ever runs.
useQueryThrows(err) ==
    /\ qThrown = NullError
    /\ ~qEffect
    /\ qThrown' = err
    /\ UNCHANGED <<qResult, qEffect, qData, qIsLoading, qError>>

\* mutant: the effect without its loading branch, so that isLoading is
\* never set back to true
queryEffectNeverReloads ==
    /\ qEffect
    /\ qEffect' = FALSE
    /\ IF qResult = UndefinedResult
       THEN UNCHANGED <<qData, qIsLoading, qError>>
       ELSE /\ qData' = qResult
            /\ qError' = NullError
            /\ qIsLoading' = FALSE
    /\ UNCHANGED <<qResult, qThrown>>

\* The effect of useConvexQuery. The try block holds two state setters,
\* which do not throw, so its catch block is never entered.
queryEffect ==
    /\ qEffect
    /\ qEffect' = FALSE
    /\ IF qResult = UndefinedResult
       THEN /\ qIsLoading' = TRUE
            /\ UNCHANGED <<qData, qError>>
       ELSE /\ qData' = qResult
            /\ qError' = NullError
            /\ qIsLoading' = FALSE
    /\ UNCHANGED <<qResult, qThrown>>

UseConvexQuery ==
    /\ \/ \E r \in {UndefinedResult} \cup Values : useQueryReturns(r)
       \/ \E err \in Errors : useQueryThrows(err)
       \/ queryEffect
    /\ UNCHANGED <<backend, mutationHook, toasts>>

\* mutant: mutate without its setError(null)
mutateCalledKeepsError(k) ==
    /\ mCalls[k].pc = "idle"
    /\ mIsLoading' = TRUE
    /\ mCalls' = [mCalls EXCEPT ![k].pc = "pending"]
    /\ UNCHANGED <<mData, mError, toasts>>

\* mutate(...args) up to its await: the mutation is sent
mutateCalled(k) ==
    /\ mCalls[k].pc = "idle"
    /\ mIsLoading' = TRUE
    /\ mError' = NullError
    /\ mCalls' = [mCalls EXCEPT ![k].pc = "pending"]
    /\ UNCHANGED <<mData, toasts>>

\* the awaited mutation resolves: the try block ends, then finally
mutateResolved(k, response) ==
    /\ mCalls[k].pc = "pending"
    /\ mData' = response
    /\ mIsLoading' = FALSE
    /\ mCalls' = [mCalls EXCEPT ![k] = [pc |-> "returned", value |-> response]]
    /\ UNCHANGED <<mError, toasts>>

\* the awaited mutation rejects: the catch block, then finally
mutateRejected(k, err) ==
    /\ mCalls[k].pc = "pending"
    /\ mError' = err
    /\ toasts' = Append(toasts, err)
    /\ mIsLoading' = FALSE
    /\ mCalls' = [mCalls EXCEPT ![k] = [pc |-> "threw", value |-> err]]
    /\ UNCHANGED mData

UseConvexMutation ==
    /\ \E k \in 1..MaxCalls :
          \/ mutateCalled(k)
          \/ \E response \in Values : mutateResolved(k, response)
          \/ \E err \in Errors : mutateRejected(k, err)
    /\ UNCHANGED <<backend, queryHook>>

(* --------------------------- initial databases ------------------------- *)
UserTables(names) ==
    UNION {{[id \in S |-> [_id |-> id, name |-> nm[id]]] : nm \in [S -> names]}
           : S \in SUBSET UserIds \ {{}}}

ExpenseDocs ==
    [paidByUserId : UserIds, groupId : {NoGroup, 1},
     splits : SeqsUpTo([userId : UserIds], MaxSplits)]

ExpenseStores == SeqsUpTo(ExpenseDocs, MaxExpenses)

NoCall == [op |-> "none", error |-> "none"]

\* the groups table after two createGroup calls: the user with the least id
\* creates "b" naming every user, the user with the greatest id creates "a"
SeedGroups(table) ==
    LET ids == DOMAIN table
        lo == CHOOSE x \in ids : \A y \in ids : x <= y
        hi == CHOOSE x \in ids : \A y \in ids : x >= y
        all == [i \in 1..Cardinality(ids) |->
                   CHOOSE x \in ids : Cardinality({y \in ids : y < x}) = i - 1]
    IN <<newGroup(1, lo, <<2>>, Undefined, SetAdd(all, lo), 0,
                  [i \in 1..Len(all) |-> 0]),
         newGroup(2, hi, <<1>>, Undefined, <<hi>>, 0, <<0>>)>>

(* The group lifecycle: createGroup and getAllContacts over an empty        *)
(* expenses table. Neither reads a user's name there, so one name serves.  *)
Init ==
    /\ users \in UserTables({<<1>>})
    /\ expenses = <<>>
    /\ groups = <<>>
    /\ now = 0
    /\ ret = NoCall
    /\ HooksInit

Next == CreateGroup \/ GetAllContacts

Spec == Init /\ [][Next]_vars

(* Contact derivation: getAllContacts over every users and expenses table   *)
(* within the bounds, with two groups already created.                     *)
ContactsInit ==
    /\ users \in UserTables(UserNames)
    /\ expenses \in ExpenseStores
    /\ groups = SeedGroups(users)
    /\ now = 0
    /\ ret = NoCall
    /\ HooksInit

ContactsNext == GetAllContacts

ContactsSpec == ContactsInit /\ [][ContactsNext]_vars

(* The hooks of one mounted component, over a database that holds one user. *)
HookInit ==
    /\ users \in UserTables({<<1>>})
    /\ DOMAIN users = {1}
    /\ expenses = <<>>
    /\ groups = <<>>
    /\ now = 0
    /\ ret = NoCall
    /\ HooksInit

HookNext == UseConvexQuery \/ UseConvexMutation

HookSpec == HookInit /\ [][HookNext]_vars

(* ============================== the claims ============================= *)
\* a wall clock that stands still while the handler runs
StillClock == [i \in 1..(MaxMembers + 1) |-> now]

IsBlank(name) == \A i \in DOMAIN name : name[i] = Space

RosterIds(g) == {g.members[i].userId : i \in DOMAIN g.members}

\* the roster of g is members and the caller, each once, the caller its
\* only admin and its creator
RosterOf(g, members, caller) ==
    /\ RosterIds(g) = Range(members) \cup {caller}
    /\ \A i, j \in DOMAIN g.members :
          i # j => g.members[i].userId # g.members[j].userId
    /\ \A i \in DOMAIN g.members :
          g.members[i].role =
              IF g.members[i].userId = caller THEN "admin" ELSE "member"
    /\ g.createdBy = caller

(* C1: every successful createGroup(name, description, members) by caller  *)
(* c persists a group whose roster holds exactly the ids of members and c, *)
(* each once (also when members repeats an id or names c), with c as admin *)
(* and creator and every other member with role member; so every persisted *)
(* group has unique member ids and exactly one admin, its creator.         *)
C1_RosterIsMembersAndCaller ==
    /\ \A caller \in DOMAIN users, name \in GroupNames,
          description \in Descriptions, members \in MemberLists :
          LET r == createGroupResult(caller, name, description, members,
                                     StillClock)
          IN r.error = "none" =>
                /\ Len(r.groups) = Len(groups) + 1
                /\ SubSeq(r.groups, 1, Len(groups)) = groups
                /\ RosterOf(r.groups[Len(r.groups)], members, caller)
    /\ \A k \in DOMAIN groups :
          /\ \A i, j \in DOMAIN groups[k].members :
                i # j => groups[k].members[i].userId # groups[k].members[j].userId
          /\ {i \in DOMAIN groups[k].members : groups[k].members[i].role = "admin"}
               = {i \in DOMAIN groups[k].members :
                     groups[k].members[i].userId = groups[k].createdBy}
          /\ groups[k].createdBy \in RosterIds(groups[k])
    /\ (ret.op = "createGroup" /\ ret.error = "none") =>
          RosterIds(groups[ret.value]) =
              Range(ret.members) \cup {groups[ret.value].createdBy}

\* a call whose members repeated an id or named the caller has just
\* inserted a group
C1_Witness ==
    /\ ret.op = "createGroup"
    /\ ret.error = "none"
    /\ \/ Len(ret.members) > Cardinality(Range(ret.members))
       \/ groups[ret.value].createdBy \in Range(ret.members)
    /\ Len(groups[ret.value].members) > 1
    /\ RosterOf(groups[ret.value], ret.members, groups[ret.value].createdBy)

\* the missing id the handler meets first: members in the order given, then
\* the caller
FirstUnknown(members, caller) ==
    LET unknown == {i \in DOMAIN members : members[i] \notin DOMAIN users} IN
    IF unknown # {}
    THEN members[CHOOSE i \in unknown : \A j \in unknown : i <= j]
    ELSE caller

SomeUnknown(members, caller) ==
    \E id \in Range(members) \cup {caller} : id \notin DOMAIN users

(* C2, as stated: whenever some id of members and the caller resolves to no *)
(* user, createGroup fails with the unknown-user error naming the first     *)
(* missing id in iteration order, and inserts no group.                     *)
C2_UnknownUserAlways ==
    \A caller \in DOMAIN users, name \in GroupNames,
       description \in Descriptions, members \in MemberLists :
       LET r == createGroupResult(caller, name, description, members,
                                  StillClock)
       IN SomeUnknown(members, caller) =>
             /\ r.error = "User not found"
             /\ r.errorId = FirstUnknown(members, caller)
             /\ r.groups = groups

(* C2, amended: whenever the name is not blank and some id of members and   *)
(* the caller resolves to no user, createGroup fails with the unknown-user  *)
(* error naming the first missing id in iteration order, and inserts no     *)
(* group, in every reachable state.                                         *)
C2_UnknownUserWhenNameValid ==
    \A caller \in DOMAIN users, name \in GroupNames,
       description \in Descriptions, members \in MemberLists :
       LET r == createGroupResult(caller, name, description, members,
                                  StillClock)
       IN (~IsBlank(name) /\ SomeUnknown(members, caller)) =>
             /\ r.error = "User not found"
             /\ r.errorId = FirstUnknown(members, caller)
             /\ r.groups = groups

\* after a group was created, a call has just failed on an unknown id that
\* was not the only unknown one
C2_Witness ==
    /\ ret.op = "createGroup"
    /\ ret.error = "User not found"
    /\ ret.errorId \notin DOMAIN users
    /\ groups # <<>>
    /\ \E id \in UserIds \ DOMAIN users : id # ret.errorId

(* C3: createGroup with an empty or all-space name fails with the          *)
(* invalid-name error and inserts no group, also when a member id resolves *)
(* to no user: the name is checked before the members.                     *)
C3_BlankNameRejectedFirst ==
    \A caller \in DOMAIN users, name \in GroupNames,
       description \in Descriptions, members \in MemberLists :
       LET r == createGroupResult(caller, name, description, members,
                                  StillClock)
       IN IsBlank(name) =>
             /\ r.error = "Group name cannot be empty"
             /\ r.groups = groups

\* a call has just failed on its name in a database where a call can name a
\* blank name together with an unknown member
C3_Witness ==
    /\ ret.op = "createGroup"
    /\ ret.error = "Group name cannot be empty"
    /\ \E caller \in DOMAIN users, name \in GroupNames, members \in MemberLists :
          /\ name # <<>>
          /\ IsBlank(name)
          /\ SomeUnknown(members, caller)
          /\ validateGroup(caller, name, members).error = ret.error

SplitIds(e) == {e.splits[i].userId : i \in DOMAIN e.splits}

\* the personal expenses the viewer paid or has a split in
Involving(viewer) ==
    {k \in DOMAIN expenses :
        /\ expenses[k].groupId = NoGroup
        /\ \/ expenses[k].paidByUserId = viewer
           \/ viewer \in SplitIds(expenses[k])}

\* the other ids of those expenses: their payers and split participants
Counterparties(viewer) ==
    {u \in UserIds \ {viewer} :
        \E k \in Involving(viewer) :
            u = expenses[k].paidByUserId \/ u \in SplitIds(expenses[k])}

UserContact(id) == [id |-> id, name |-> users[id].name, type |-> "user"]

(* C4: for every viewer and every expenses table, the users list of        *)
(* getAllContacts holds exactly the existing users other than the viewer   *)
(* who are payer or split participant of a personal expense that the       *)
(* viewer paid or has a split in, each once; an expense with a groupId     *)
(* contributes nobody.                                                     *)
C4_UsersAreCounterparties ==
    ret.op = "getAllContacts" =>
        LET us == ret.value.users IN
        /\ {us[i].id : i \in DOMAIN us} =
               Counterparties(ret.viewer) \cap DOMAIN users
        /\ \A i, j \in DOMAIN us : i # j => us[i].id # us[j].id
        /\ \A i \in DOMAIN us : us[i] = UserContact(us[i].id)

\* the viewer got a contact from personal expenses, while a user the viewer
\* shares only a group expense with is not listed
C4_Witness ==
    /\ ret.op = "getAllContacts"
    /\ ret.value.users # <<>>
    /\ \E k \in DOMAIN expenses :
          /\ expenses[k].groupId # NoGroup
          /\ expenses[k].paidByUserId = ret.viewer
          /\ \E u \in SplitIds(expenses[k]) \cap DOMAIN users :
                /\ u # ret.viewer
                /\ \A i \in DOMAIN ret.value.users : ret.value.users[i].id # u

(* C5: getAllContacts never lists the viewer among the users, also when    *)
(* the viewer paid an expense and is in its splits, and never lists one    *)
(* group id twice.                                                         *)
C5_NoViewerNoDoubleGroup ==
    ret.op = "getAllContacts" =>
        /\ \A i \in DOMAIN ret.value.users :
              ret.value.users[i].id # ret.viewer
        /\ \A i, j \in DOMAIN ret.value.groups :
              i # j => ret.value.groups[i].id # ret.value.groups[j].id

\* the viewer paid a personal expense, is in its splits, and got a contact
\* and two groups
C5_Witness ==
    /\ ret.op = "getAllContacts"
    /\ ret.value.users # <<>>
    /\ Len(ret.value.groups) > 1
    /\ \E k \in Involving(ret.viewer) :
          /\ expenses[k].paidByUserId = ret.viewer
          /\ ret.viewer \in SplitIds(expenses[k])

(* C6: the users list of getAllContacts is sorted ascending by name, ties  *)
(* broken by id, and the groups list is sorted ascending by name, whatever *)
(* the tables hold.                                                        *)
C6_SortedByNameThenId ==
    ret.op = "getAllContacts" =>
        /\ \A i, j \in DOMAIN ret.value.users :
              i < j =>
                 \/ localeCompare(ret.value.users[i].name,
                                  ret.value.users[j].name) < 0
                 \/ /\ ret.value.users[i].name = ret.value.users[j].name
                    /\ ret.value.users[i].id < ret.value.users[j].id
        /\ \A i, j \in DOMAIN ret.value.groups :
              i < j => localeCompare(ret.value.groups[i].name,
                                     ret.value.groups[j].name) <= 0

(* C7: when a collected contact id resolves to no user, getAllContacts     *)
(* still returns; its users list leaves out exactly the unresolved ids and *)
(* holds every contact that resolves.                                      *)
C7_UnresolvedDropped ==
    ret.op = "getAllContacts" =>
        /\ ret.error = "none"
        /\ Null \notin Range(ret.value.users)
        /\ \A id \in Counterparties(ret.viewer) :
              IF id \in DOMAIN users
              THEN UserContact(id) \in Range(ret.value.users)
              ELSE \A i \in DOMAIN ret.value.users : ret.value.users[i].id # id
        /\ Len(ret.value.users) =
              Cardinality(Counterparties(ret.viewer) \cap DOMAIN users)

\* the viewer's expenses name a user that does not exist and one that does
C7_Witness ==
    /\ ret.op = "getAllContacts"
    /\ ret.value.users # <<>>
    /\ Counterparties(ret.viewer) \ DOMAIN users # {}

(* C8: after any createGroup calls, the groups list of getAllContacts(u)   *)
(* holds exactly the groups whose roster contains u, and each entry's      *)
(* memberCount is the number of distinct users of that roster.             *)
C8_GroupsAreMemberships ==
    ret.op = "getAllContacts" =>
        LET gs == ret.value.groups IN
        /\ {gs[i].id : i \in DOMAIN gs} =
               {k \in DOMAIN groups : ret.viewer \in RosterIds(groups[k])}
        /\ \A i, j \in DOMAIN gs : i # j => gs[i].id # gs[j].id
        /\ \A i \in DOMAIN gs :
              gs[i].memberCount = Cardinality(RosterIds(groups[gs[i].id]))

\* of two groups, the viewer is listed one it was named a member of, with
\* its member count, and not the other
C8_Witness ==
    /\ ret.op = "getAllContacts"
    /\ Len(groups) = 2
    /\ Len(ret.value.groups) = 1
    /\ ret.value.groups[1].memberCount > 1
    /\ groups[ret.value.groups[1].id].createdBy # ret.viewer

(* C10: when the Convex query given to useConvexQuery fails, the hook      *)
(* reports it: the error state holds the failure, an error toast was       *)
(* shown and isLoading is false; a failed query never leaves error null.   *)
C10_FailedQueryReported ==
    qThrown # NullError =>
        /\ qError = qThrown
        /\ qThrown \in Range(toasts)
        /\ ~qIsLoading

(* C11: useConvexQuery, once the effect has run for the current useQuery   *)
(* result: isLoading is true exactly when that result is undefined, and    *)
(* when isLoading is false, data is the current result and error is null;  *)
(* also at mount and when the result goes back to undefined and returns.   *)
C11_QueryStateFollowsResult ==
    ~qEffect =>
        /\ qIsLoading <=> (qResult = UndefinedResult)
        /\ ~qIsLoading => (qData = qResult /\ qError = NullError)

\* the result was defined, went back to undefined, and the effect has run
\* for it: isLoading is true again while data still holds the old result
C11_Witness ==
    /\ ~qEffect
    /\ qThrown = NullError
    /\ qResult = UndefinedResult
    /\ qData # UndefinedResult
    /\ qIsLoading

\* the steps of mutate call k: its start, its return, its throw
Starts(k) == mCalls[k].pc = "idle" /\ mCalls'[k].pc = "pending"
Returns(k) == mCalls[k].pc = "pending" /\ mCalls'[k].pc = "returned"
Throws(k) == mCalls[k].pc = "pending" /\ mCalls'[k].pc = "threw"
\* call k is the only mutate call made so far
OnlyCall(k) == \A j \in 1..MaxCalls : j # k => mCalls[j].pc = "idle"

\* the hook's state during and after a mutate call that is the only one
SingleCallState(k) ==
    /\ mCalls[k].pc = "pending" => (mIsLoading /\ mError = NullError)
    /\ mCalls[k].pc = "returned" =>
          /\ ~mIsLoading
          /\ mData = mCalls[k].value
          /\ mError = NullError
    /\ mCalls[k].pc = "threw" =>
          /\ ~mIsLoading
          /\ mError = mCalls[k].value
          /\ toasts = <<mCalls[k].value>>
          /\ mData = UndefinedResult

(* C12: one mutate call of useConvexMutation: isLoading is true from the   *)
(* start of the call until the mutation settles and false afterwards,      *)
(* whichever way it settles; error is reset to null at the start; on       *)
(* success data is the response, which is returned; on failure error is    *)
(* the thrown error, a toast shows it, it is rethrown, and data keeps its  *)
(* previous value. isLoading changes at no other step.                     *)
C12_SingleMutate ==
    [][/\ \A k \in 1..MaxCalls :
            /\ Starts(k) =>
                  /\ mIsLoading'
                  /\ mError' = NullError
                  /\ mData' = mData
                  /\ toasts' = toasts
            /\ Returns(k) =>
                  /\ ~mIsLoading'
                  /\ mCalls'[k].value \in Values
                  /\ mData' = mCalls'[k].value
                  /\ mError' = mError
                  /\ toasts' = toasts
            /\ Throws(k) =>
                  /\ ~mIsLoading'
                  /\ mCalls'[k].value \in Errors
                  /\ mError' = mCalls'[k].value
                  /\ toasts' = Append(toasts, mCalls'[k].value)
                  /\ mData' = mData
            /\ OnlyCall(k)' => SingleCallState(k)'
       /\ mIsLoading' # mIsLoading =>
             \E k \in 1..MaxCalls : Starts(k) \/ Returns(k) \/ Throws(k)
      ]_vars

\* a call succeeded, a later one failed: data still holds the response of
\* the first, error and the last toast hold the failure of the second
C12_Witness ==
    /\ mCalls[1].pc = "returned"
    /\ mCalls[2].pc = "threw"
    /\ mData = mCalls[1].value
    /\ mError = mCalls[2].value
    /\ toasts = <<mCalls[2].value>>
    /\ ~mIsLoading

(* C13: with several overlapping mutate calls on one useConvexMutation,    *)
(* isLoading is true in every state in which at least one call is still    *)
(* pending; it turns false only when the last pending call has settled.    *)
C13_LoadingWhileAnyPending ==
    (\E k \in 1..MaxCalls : mCalls[k].pc = "pending") => mIsLoading

====
